---- MODULE Spec2Model ----
(***************************************************************************)
(* Model of the ablation-analysis orchestrator                             *)
(* (MuZero/muzero/Experimenter/Parameters.py): the AblationAnalysis        *)
(* context manager (__enter__, run, __exit__), the worker threads of its   *)
(* ThreadPoolExecutor and the run_ablations entry point.                   *)
(*                                                                         *)
(* Strings built with f-strings or os.path.join are tuples of their        *)
(* pieces; a path is [abs, comps] with one tuple per component.  Nested    *)
(* DotDict objects live in a heap (a sequence indexed by address), so that *)
(* two configurations holding the same address share one args object.      *)
(* The DotDict class is outside the modelled sources: line 59 notes that   *)
(* its copy() is shallow, the specification describes a deep copy; which   *)
(* of the two it is (deep_copy) is fixed when the program starts.          *)
(*                                                                         *)
(* KeyboardInterrupt is delivered to the main thread while it is inside    *)
(* run() only; filesystem errors are raised by the calls of __enter__.     *)
(* A worker's locals (gpu_memory, gpu, cmd) are kept while its trainer     *)
(* runs and dropped when start_run returns.                                *)
(***************************************************************************)
EXTENDS Integers, Sequences, FiniteSets, TLC

(* ------------------------------ bounds -------------------------------- *)
MaxRepeat == 2
MaxGrid == 2
MaxFiles == 4
MaxJobs == 2
MaxGPUs == 2
MaxMem == 1
MaxInterrupts == 2
MaxLifecycles == 2

(* ------------------------------- state -------------------------------- *)
VARIABLES
  experiment,   \* the ExperimentConfig (read-only)
  heap,         \* nested DotDict objects (args), by address
  base_config,  \* __enter__'s base_config (top level: name, args address)
  configs,      \* self.configs
  files,        \* self.files
  run,          \* loop variable run of __enter__
  idx,          \* loop variable i of __enter__ / position in __exit__'s loop
  dirExists,    \* the temp-config directory exists
  dirFiles,     \* config files present in the temp-config directory
  dirOther,     \* the directory holds content that is not ours
  disk,         \* content of each config file present
  ckptDirs,     \* checkpoint directories created
  manifest,     \* the schedule manifest written (<<>> before)
  pc,           \* position of the main thread
  exc,          \* exception propagating in the main thread
  exits,        \* number of calls of __exit__
  execute,      \* the flag of run() read by start_run
  jobs,         \* the futures submitted, in submission order
  worker,       \* the pool's worker threads
  interrupts,   \* interrupts delivered so far
  gpus,         \* number of GPUs of the machine
  config_dir,   \* self.config_dir
  exitCodes,    \* exit codes the trainer can end with
  lifecycle,    \* number of lifecycles completed on this object
  deep_copy     \* DotDict.copy() duplicates nested objects

vars == <<experiment, heap, base_config, configs, files, run, idx, dirExists,
          dirFiles, dirOther, disk, ckptDirs, manifest, pc, exc, exits,
          execute, jobs, worker, interrupts, gpus, config_dir, exitCodes,
          lifecycle, deep_copy>>

envVars == <<gpus, config_dir, exitCodes, lifecycle, deep_copy>>
cfgVars == <<heap, base_config, configs>>
fsVars == <<dirExists, dirFiles, dirOther, disk, ckptDirs, manifest>>
poolVars == <<execute, jobs, worker>>

(* --------------------------- string helpers --------------------------- *)
\* str(n) as used by an f-string on a small non-negative integer.
Digits == <<"0", "1", "2", "3", "4", "5", "6", "7", "8", "9">>

Str(n) == Digits[n + 1]

\* datetime.now().strftime("%Y%m%d-%H%M%S") at line 52: one value per
\* lifecycle, since a lifecycle sleeps at least one second per file.
Stamps == <<"20210101-000000", "20210101-000100", "20210101-000200",
            "20210101-000300">>

dt == Stamps[lifecycle + 1]

\* Variant of RunConfigName that leaves the repetition number out.
RunConfigNameNoRep(r, i) == <<"rep", Str(0), "_config", Str(i), "_dt", dt>>

\* f'rep{run}_config{i}_dt{dt}'
RunConfigName(r, i) == <<"rep", Str(r), "_config", Str(i), "_dt", dt>>

\* f'{c.name}_{run_config_name}'
SuffixedName(name, rcn) == name \o <<"_">> \o rcn

(* ------------------------------- paths -------------------------------- *)
RelPath(comps) == [abs |-> FALSE, comps |-> comps]
AbsPath(comps) == [abs |-> TRUE, comps |-> comps]

\* os.path.join(a, b): an absolute b discards a.
Join(a, b) == IF b.abs THEN b ELSE [abs |-> a.abs, comps |-> a.comps \o b.comps]

\* os.path.join(a, name) for a single relative component.
JoinName(a, name) == Join(a, RelPath(<<name>>))

\* os.path.join(output_directory, c.args.checkpoint, run_config_name)
CheckpointPath(output_directory, checkpoint, rcn) ==
  JoinName(Join(output_directory, checkpoint), rcn)

(* ------------------------------ DotDict ------------------------------- *)
\* dict.update semantics on one mapping: keys of o overwrite, others stay.
Merge(d, o) ==
  [k \in (DOMAIN d) \cup (DOMAIN o) |-> IF k \in DOMAIN o THEN o[k] ELSE d[k]]

\* A deep DotDict.copy(): the top-level mapping is new and the nested args
\* object is duplicated at a new address.
DeepCopy(h, c) ==
  [heap |-> Append(h, h[c.args]), cfg |-> [c EXCEPT !.args = Len(h) + 1]]

\* A shallow DotDict.copy() ("Note: shallow copy.", line 59): the top-level
\* mapping is new, the nested args object is the same one (same address).
ShallowCopy(h, c) == [heap |-> h, cfg |-> c]

\* base_config.copy() (line 47) and config.copy() (line 59).
Copy(h, c) == IF deep_copy THEN DeepCopy(h, c) ELSE ShallowCopy(h, c)

\* DotDict.recursive_update(other): scalar values replace, mapping values
\* are merged into the existing nested object in place.
RecursiveUpdate(h, c, other) ==
  [heap |-> IF "args" \in DOMAIN other
              THEN [h EXCEPT ![c.args] = Merge(h[c.args], other.args)]
              ELSE h,
   cfg  |-> IF "name" \in DOMAIN other
              THEN [c EXCEPT !.name = other.name]
              ELSE c]

\* DotDict.to_json: the document written for configuration c.
Serialize(h, c) == [name |-> c.name, args |-> h[c.args]]

(* ------------------------------ inputs -------------------------------- *)
\* The base configuration document (ablation_base.config).
BaseDocs ==
  { [name |-> <<"base">>,
     args |-> [checkpoint |-> ck,
               load_folder_file |-> <<RelPath(<<<<"pretrained">>>>), "best.pth.tar">>,
               b |-> 0, c |-> 2]] :
    ck \in {RelPath(<<<<"ckpt">>>>), AbsPath(<<<<"ckpt">>>>)} }

\* Override documents of the ablation grid.
Overrides ==
  { [args |-> [b |-> 1]], [args |-> [c |-> 5]], [name |-> <<"alt">>] }

OutputDirs == { RelPath(<<<<"out">>>>), AbsPath(<<<<"out">>>>) }

\* All sequences over S with length in lo..hi.
SeqsOf(S, lo, hi) == UNION { [1..n -> S] : n \in lo..hi }

NoConfig == [name |-> <<>>, args |-> 0]
IdleWorker == [phase |-> "idle", job |-> 0, gpu_memory |-> <<>>, gpu |-> 0, cmd |-> <<>>]

Grid == experiment.ablation_grid
NumRepeat == experiment.num_repeat

(* -------------------------------- Init -------------------------------- *)
\* The default of the config_dir parameter (line 22).
DefaultConfigDir == <<"./temp/">>

\* AblationAnalysis.__init__ on a given experiment, in a given environment.
InitEnv(E, dirStates, gpuCounts, configDirs, codes) ==
  /\ experiment \in E
  /\ heap = <<>>
  /\ base_config = NoConfig
  /\ configs = <<>>
  /\ files = <<>>
  /\ run = 0
  /\ idx = 0
  /\ \E d \in dirStates : dirExists = d.exists /\ dirOther = d.other
  /\ dirFiles = {}
  /\ disk = [f \in {} |-> NoConfig]
  /\ ckptDirs = {}
  /\ manifest = <<>>
  /\ pc = "enter"
  /\ exc = "none"
  /\ exits = 0
  /\ execute = TRUE
  /\ jobs = <<>>
  /\ worker = [w \in 1..MaxJobs |-> IdleWorker]
  /\ interrupts = 0
  /\ gpus \in gpuCounts
  /\ config_dir \in configDirs
  /\ exitCodes = codes
  /\ lifecycle = 0

\* run_ablations: config_dir at its default; the trainer exits with 0.
InitWith(E, dirStates, gpuCounts) ==
  InitEnv(E, dirStates, gpuCounts, {DefaultConfigDir}, {0})

DirStates ==
  { [exists |-> FALSE, other |-> FALSE],
    [exists |-> TRUE, other |-> FALSE],
    [exists |-> TRUE, other |-> TRUE] }

Experiments(repeats, grids, njobs, flagss, outdirs, bases) ==
  [num_repeat : repeats, ablation_grid : grids, n_jobs : njobs, flags : flagss,
   output_directory : outdirs, ablation_base : bases]

(* ------------------------------ __enter__ ----------------------------- *)
\* Lines 46-49: one resolved configuration per grid point, in grid order.
\* Returns the heap and the list of configurations.
RECURSIVE BuildConfigs(_, _, _, _, _)
BuildConfigs(h, base, grid, k, acc) ==
  IF k > Len(grid) THEN [heap |-> h, configs |-> acc]
  ELSE LET cp == Copy(h, base)
           up == RecursiveUpdate(cp.heap, cp.cfg, grid[k])
       IN BuildConfigs(up.heap, base, grid, k + 1, Append(acc, up.cfg))

\* Lines 40-41.
EnterMkdir ==
  /\ pc = "enter"
  /\ dirExists' = TRUE
  /\ pc' = "load"
  /\ UNCHANGED <<experiment, envVars, cfgVars, files, run, idx, dirFiles, dirOther, disk,
                 ckptDirs, manifest, exc, exits, poolVars, interrupts>>

\* Lines 44-49: DotDict.from_json allocates the base configuration and its
\* nested args object; then the grid is expanded.
EnterConfigs ==
  /\ pc = "load"
  /\ LET h0 == <<experiment.ablation_base.args>>
         b0 == [name |-> experiment.ablation_base.name, args |-> 1]
         built == BuildConfigs(h0, b0, Grid, 1, <<>>)
     IN /\ base_config' = b0
        /\ heap' = built.heap
        /\ configs' = built.configs
  /\ pc' = "schedule"
  /\ UNCHANGED <<experiment, envVars, files, run, idx, fsVars, exc, exits, poolVars,
                 interrupts>>

\* Lines 52-54: the schedule manifest, grid index -> override.
EnterSchedule ==
  /\ pc = "schedule"
  /\ manifest' = Grid
  /\ run' = 0
  /\ idx' = 0
  /\ pc' = "persist"
  /\ UNCHANGED <<experiment, envVars, cfgVars, files, dirExists, dirFiles, dirOther,
                 disk, ckptDirs, exc, exits, poolVars, interrupts>>

\* Lines 59-66 for the pair (run, idx): the copy, its new name, and the
\* checkpoint rewrite through c.args.
Rewrite(h, config, r, i) ==
  LET cp == Copy(h, config)
      rcn == RunConfigName(r, i)
      c1 == [cp.cfg EXCEPT !.name = SuffixedName(cp.cfg.name, rcn)]
      out == CheckpointPath(experiment.output_directory,
                            cp.heap[c1.args].checkpoint, rcn)
      h1 == [cp.heap EXCEPT ![c1.args].checkpoint = out,
                            ![c1.args].load_folder_file =
                                <<out, cp.heap[c1.args].load_folder_file[2]>>]
  IN [heap |-> h1, cfg |-> c1, out |-> out, file |-> rcn]

\* The loop header of lines 57-58 after the body for (run, idx).
Advance ==
  IF idx + 1 < Len(configs)
    THEN /\ idx' = idx + 1 /\ run' = run /\ pc' = "persist"
    ELSE IF run + 1 < NumRepeat
      THEN /\ idx' = 0 /\ run' = run + 1 /\ pc' = "persist"
      ELSE /\ idx' = 0 /\ run' = run /\ pc' = "run_start"

\* Lines 59-74 for one (run, idx): rewrite, create the checkpoint
\* directory, write the config file, track it.
EnterPersist ==
  /\ pc = "persist"
  /\ LET rw == Rewrite(heap, configs[idx + 1], run, idx)
     IN /\ heap' = rw.heap
        /\ ckptDirs' = ckptDirs \cup {rw.out}
        /\ dirFiles' = dirFiles \cup {rw.file}
        /\ disk' = [f \in dirFiles \cup {rw.file} |->
                      IF f = rw.file THEN Serialize(rw.heap, rw.cfg) ELSE disk[f]]
        /\ files' = Append(files, rw.file)
  /\ Advance
  /\ UNCHANGED <<experiment, envVars, base_config, configs, dirExists, dirOther, manifest,
                 exc, exits, poolVars, interrupts>>

\* A filesystem call of __enter__ raises before it has any effect:
\* os.makedirs (line 41, line 69), from_json (line 45), to_json (line 54).
\* At line 45 self.configs has just been reset (line 44); at line 69 the
\* rewrite of lines 62-66 has already happened.
\* Nothing catches it and __exit__ is not called: `with` calls __exit__ only
\* once __enter__ has returned.
EnterFsError ==
  /\ pc \in {"enter", "load", "schedule", "persist"}
  /\ pc = "enter" => ~dirExists
  /\ heap' = IF pc = "persist"
               THEN Rewrite(heap, configs[idx + 1], run, idx).heap ELSE heap
  /\ configs' = IF pc = "load" THEN <<>> ELSE configs
  /\ pc' = "raised"
  /\ exc' = "OSError"
  /\ UNCHANGED <<experiment, envVars, base_config, files, run, idx, fsVars,
                 exits, poolVars, interrupts>>

\* c.to_json (line 72) raises: the checkpoint directory exists already, the
\* config file is not written and not tracked.
EnterWriteError ==
  /\ pc = "persist"
  /\ LET rw == Rewrite(heap, configs[idx + 1], run, idx)
     IN /\ heap' = rw.heap
        /\ ckptDirs' = ckptDirs \cup {rw.out}
  /\ pc' = "raised"
  /\ exc' = "OSError"
  /\ UNCHANGED <<experiment, envVars, base_config, configs, files, run, idx, dirExists,
                 dirFiles, dirOther, disk, manifest, exits, poolVars, interrupts>>

(* -------------------------------- run --------------------------------- *)
\* Variant of NumThreads: a pool as large as the machine allows, whatever
\* n_jobs says.
NumThreadsUnbounded == MaxJobs

\* Line 96 and ThreadPoolExecutor(max_workers=num_threads), line 100.
NumThreads == experiment.n_jobs

Workers == 1..NumThreads

\* A future just submitted: no trainer yet, no return code, no exception.
NewJob(file) ==
  [file |-> file, status |-> "pending", proc |-> "none", returncode |-> -1,
   exception |-> FALSE]

\* Variant of AllDone: any() in place of all().
\* Variant of AllDone: the wait loop looks at the trainers' exits instead of
\* the futures.
AllExited == \A j \in 1..Len(jobs) : jobs[j].proc = "exited"

AnyDone == \E j \in 1..Len(jobs) : jobs[j].status = "done"

AllDone == \A j \in 1..Len(jobs) : jobs[j].status = "done"

\* Lines 80-101: execute = True, the pool and the empty job list.
RunBegin ==
  /\ pc = "run_start"
  /\ execute' = TRUE
  /\ jobs' = <<>>
  /\ pc' = "submit"
  /\ UNCHANGED <<experiment, envVars, cfgVars, files, run, idx, fsVars, exc, exits,
                 worker, interrupts>>

\* Lines 102-104: sleep, then submit the next file; after the last file the
\* loop ends and the wait loop of line 106 starts.
Submit ==
  /\ pc = "submit"
  /\ Len(jobs) < Len(files)
  /\ jobs' = Append(jobs, NewJob(files[Len(jobs) + 1]))
  /\ pc' = IF Len(jobs) + 1 = Len(files) THEN "wait" ELSE "submit"
  /\ UNCHANGED <<experiment, envVars, cfgVars, files, run, idx, fsVars, exc, exits,
                 execute, worker, interrupts>>

\* Lines 106-107: the wait loop ends once every future is done.
WaitDone ==
  /\ pc = "wait"
  /\ AllDone
  /\ pc' = "finish"
  /\ UNCHANGED <<experiment, envVars, cfgVars, files, run, idx, fsVars, exc, exits,
                 poolVars, interrupts>>

\* Variant of InTry: the try block opened after the submit loop.
InTryWaitOnly == {"wait"}

\* The positions of run() inside the try block (lines 99-107).
InTry == {"submit", "wait"}

\* The positions of the main thread in run().
RunPcs == {"run_start", "submit", "wait", "except", "except_sleep", "finish"}

\* The positions of run() outside the try block: lines 80-97, the handler
\* itself (lines 110-114) and line 116.
OutsideTry == RunPcs \ InTry

\* A KeyboardInterrupt delivered to the main thread inside the try block:
\* control moves to the handler of line 109.
Interrupt ==
  /\ pc \in InTry
  /\ interrupts < MaxInterrupts
  /\ interrupts' = interrupts + 1
  /\ pc' = "except"
  /\ UNCHANGED <<experiment, envVars, cfgVars, files, run, idx, fsVars, exc, exits,
                 poolVars>>

\* Lines 110-111: the handler clears the flag.
HandleInterrupt ==
  /\ pc = "except"
  /\ execute' = FALSE
  /\ pc' = "except_sleep"
  /\ UNCHANGED <<experiment, envVars, cfgVars, files, run, idx, fsVars, exc, exits,
                 jobs, worker, interrupts>>

\* Lines 113-114: the handler's sleep is over.
HandlerDone ==
  /\ pc = "except_sleep"
  /\ pc' = "finish"
  /\ UNCHANGED <<experiment, envVars, cfgVars, files, run, idx, fsVars, exc, exits,
                 poolVars, interrupts>>

(* --------------------------- run_ablations ---------------------------- *)
\* Variant of AfterBody: enter, run and exit called in sequence without a
\* with statement, so that an exception out of the body skips __exit__.
AfterBodyNoWith(raised) == IF raised THEN "propagated" ELSE "remove"

\* The with statement (lines 131-132): however the body ends, __exit__ is
\* called next.
AfterBody(raised) == "remove"

\* A KeyboardInterrupt delivered while run() is outside its try block
\* propagates out of run(); the with statement calls __exit__ with it.
InterruptUncaught ==
  /\ pc \in OutsideTry
  /\ interrupts < MaxInterrupts
  /\ interrupts' = interrupts + 1
  /\ exc' = "KeyboardInterrupt"
  /\ pc' = AfterBody(TRUE)
  /\ exits' = IF AfterBody(TRUE) = "remove" THEN exits + 1 ELSE exits
  /\ idx' = 0
  /\ UNCHANGED <<experiment, envVars, cfgVars, files, run, fsVars, poolVars>>

\* Line 116, run() returns, and the with statement calls __exit__.
RunReturn ==
  /\ pc = "finish"
  /\ pc' = AfterBody(FALSE)
  /\ exits' = IF AfterBody(FALSE) = "remove" THEN exits + 1 ELSE exits
  /\ idx' = 0
  /\ UNCHANGED <<experiment, envVars, cfgVars, files, run, fsVars, exc, poolVars,
                 interrupts>>

(* ------------------------------ __exit__ ------------------------------ *)
\* Variant of ExitFiles: the loop stops one file short.
ExitFilesButLast == SubSeq(files, 1, Len(files) - 1)

\* Variant of ExitFiles: only the files that were submitted to the pool.
ExitFilesSubmitted == [j \in 1..Len(jobs) |-> jobs[j].file]

\* The files __exit__ iterates over (line 121).
ExitFiles == files

\* Lines 121-122: os.remove of the next tracked file; a missing file raises
\* FileNotFoundError out of __exit__.
ExitRemove ==
  /\ pc = "remove"
  /\ idx < Len(ExitFiles)
  /\ LET file == ExitFiles[idx + 1]
     IN IF file \in dirFiles
          THEN /\ dirFiles' = dirFiles \ {file}
               /\ disk' = [f \in dirFiles \ {file} |-> disk[f]]
               /\ idx' = idx + 1
               /\ UNCHANGED <<pc, exc>>
          ELSE /\ pc' = "propagated"
               /\ exc' = "OSError"
               /\ UNCHANGED <<dirFiles, disk, idx>>
  /\ UNCHANGED <<experiment, envVars, cfgVars, files, run, dirExists, dirOther,
                 ckptDirs, manifest, exits, poolVars, interrupts>>

\* Variant of DirEmpty: only our own files are looked at.
DirEmptyOfOurs == dirFiles = {}

\* os.listdir(self.config_dir) is empty.
DirEmpty == dirFiles = {} /\ ~dirOther

\* Lines 125-126 after the last removal; then the with statement re-raises
\* what the body raised.
ExitRmdir ==
  /\ pc = "remove"
  /\ idx = Len(ExitFiles)
  /\ dirExists' = IF DirEmpty THEN FALSE ELSE dirExists
  /\ pc' = IF exc = "none" THEN "done" ELSE "propagated"
  /\ UNCHANGED <<experiment, envVars, cfgVars, files, run, idx, dirFiles, dirOther,
                 disk, ckptDirs, manifest, exc, exits, poolVars, interrupts>>

(* ----------------------------- start_run ------------------------------ *)
\* What get_gpu_memory() can return: free MiB per GPU index (0-based).
GpuReadings == [0..(gpus - 1) -> 0..MaxMem]

\* np.argmax: scan left to right, keep the first index of the largest value.
RECURSIVE ArgMaxScan(_, _, _)
ArgMaxScan(m, i, best) ==
  IF i \notin DOMAIN m THEN best
  ELSE ArgMaxScan(m, i + 1, IF m[i] > m[best] THEN i ELSE best)

\* Variant of np.argmax that keeps the last index of the largest value.
RECURSIVE ArgMaxLastScan(_, _, _)
ArgMaxLastScan(m, i, best) ==
  IF i \notin DOMAIN m THEN best
  ELSE ArgMaxLastScan(m, i + 1, IF m[i] >= m[best] THEN i ELSE best)

ArgMaxLast(m) == ArgMaxLastScan(m, 1, 0)

ArgMax(m) == ArgMaxScan(m, 1, 0)

\* A command-line token is a tuple of string pieces.
Tok(s) == <<s>>

\* os.path.join(self.config_dir, run_config_name) + '.json' (line 71).
ConfigFile(rcn) == config_dir \o rcn \o <<".json">>

\* '--gpu' in cmd (line 90): some piece of the command contains '--gpu'.
HasGpuFlag(cmd) ==
  \E t \in 1..Len(cmd) : \E p \in 1..Len(cmd[t]) : cmd[t][p] = "--gpu"

\* Lines 89-91 and cmd.split() of line 94.
Command(config, flags, gpu) ==
  LET cmd == <<Tok("python"), Tok("Main.py"), Tok("train"), Tok("-c"),
               ConfigFile(config)>> \o flags
  IN IF HasGpuFlag(cmd) THEN cmd ELSE cmd \o <<Tok("--gpu"), Tok(Str(gpu))>>

\* Variant of NextPending: the work queue hands out the newest job first.
NextPendingLast ==
  CHOOSE j \in 1..Len(jobs) :
    /\ jobs[j].status = "pending"
    /\ \A i \in (j + 1)..Len(jobs) : jobs[i].status # "pending"

\* The first job no worker has taken yet (the pool's queue is FIFO).
NextPending ==
  CHOOSE j \in 1..Len(jobs) :
    /\ jobs[j].status = "pending"
    /\ \A i \in 1..(j - 1) : jobs[i].status # "pending"

\* The pool's threads are interchangeable: the job goes to the idle thread
\* of lowest index.
FirstIdle(w) ==
  /\ worker[w].phase = "idle"
  /\ \A v \in 1..(w - 1) : worker[v].phase # "idle"

\* An idle pool thread takes the next work item off the queue and marks
\* its future running; start_run has not read anything yet.
WorkerTake(w) ==
  /\ FirstIdle(w)
  /\ \E j \in 1..Len(jobs) : jobs[j].status = "pending"
  /\ LET j == NextPending
     IN /\ jobs' = [jobs EXCEPT ![j].status = "running"]
        /\ worker' = [worker EXCEPT ![w] =
                        [IdleWorker EXCEPT !.phase = "taken", !.job = j]]
  /\ UNCHANGED <<experiment, envVars, cfgVars, files, run, idx, fsVars, pc, exc, exits,
                 execute, interrupts>>

\* start_run evaluates `if execute` (line 84): with the flag cleared it
\* returns at once and the future is done.
WorkerStart(w) ==
  /\ worker[w].phase = "taken"
  /\ IF execute
       THEN /\ worker' = [worker EXCEPT ![w].phase = "checked"]
            /\ jobs' = jobs
       ELSE /\ jobs' = [jobs EXCEPT ![worker[w].job].status = "done"]
            /\ worker' = [worker EXCEPT ![w] = IdleWorker]
  /\ UNCHANGED <<experiment, envVars, cfgVars, files, run, idx, fsVars, pc, exc, exits,
                 execute, interrupts>>

\* Variant of GpuQueryFail: the exception reaches the main thread, as if
\* run() called result() on its futures, and leaves run().
GpuQueryFailPropagates(w) ==
  /\ worker[w].phase = "checked"
  /\ jobs' = [jobs EXCEPT ![worker[w].job].status = "done",
                          ![worker[w].job].exception = TRUE]
  /\ worker' = [worker EXCEPT ![w] = IdleWorker]
  /\ IF pc \in {"submit", "wait"}
       THEN pc' = "remove" /\ exc' = "RuntimeError" /\ exits' = exits + 1
            /\ idx' = 0
       ELSE UNCHANGED <<pc, exc, exits, idx>>
  /\ UNCHANGED <<experiment, envVars, cfgVars, files, run, fsVars, execute,
                 interrupts>>

\* get_gpu_memory() raises: the exception ends start_run and is stored in
\* the future, which is done.  No trainer is started.
GpuQueryFail(w) ==
  /\ worker[w].phase = "checked"
  /\ jobs' = [jobs EXCEPT ![worker[w].job].status = "done",
                          ![worker[w].job].exception = TRUE]
  /\ worker' = [worker EXCEPT ![w] = IdleWorker]
  /\ UNCHANGED <<experiment, envVars, cfgVars, files, run, idx, fsVars, pc, exc, exits,
                 execute, interrupts>>

\* Lines 85-94: the GPU query, the choice of the GPU, the command, and
\* sp.call starts the trainer.  The flag is not read again.
Launch(w) ==
  /\ worker[w].phase = "checked"
  /\ \E m \in GpuReadings :
       LET j == worker[w].job
           gpu == ArgMax(m)
       IN /\ jobs' = [jobs EXCEPT ![j].proc = "running"]
          /\ worker' = [worker EXCEPT
                          ![w].phase = "call",
                          ![w].gpu_memory = m,
                          ![w].gpu = gpu,
                          ![w].cmd = Command(jobs[j].file, experiment.flags, gpu)]
  /\ UNCHANGED <<experiment, envVars, cfgVars, files, run, idx, fsVars, pc, exc, exits,
                 execute, interrupts>>

\* Variant of ProcExit: a trainer that exits with a nonzero code is queued
\* again.
ProcExitRetry(w) ==
  /\ worker[w].phase = "call"
  /\ \E rc \in exitCodes :
       jobs' = [jobs EXCEPT
                  ![worker[w].job].proc = IF rc = 0 THEN "exited" ELSE "none",
                  ![worker[w].job].returncode = rc,
                  ![worker[w].job].status = IF rc = 0 THEN "done" ELSE "pending"]
  /\ worker' = [worker EXCEPT ![w] = IdleWorker]
  /\ UNCHANGED <<experiment, envVars, cfgVars, files, run, idx, fsVars, pc, exc,
                 exits, execute, interrupts>>

\* The trainer exits, sp.call returns (its value is dropped), start_run
\* returns and the future is done.
ProcExit(w) ==
  /\ worker[w].phase = "call"
  /\ \E rc \in exitCodes :
       jobs' = [jobs EXCEPT ![worker[w].job].proc = "exited",
                            ![worker[w].job].returncode = rc,
                            ![worker[w].job].status = "done"]
  /\ worker' = [worker EXCEPT ![w] = IdleWorker]
  /\ UNCHANGED <<experiment, envVars, cfgVars, files, run, idx, fsVars, pc, exc, exits,
                 execute, interrupts>>

(* --------------------------- specification ---------------------------- *)
Flags == { <<>>, <<Tok("--gpu"), Tok("1")>> }

Next ==
  \/ EnterMkdir
  \/ EnterConfigs
  \/ EnterSchedule
  \/ EnterPersist
  \/ EnterFsError
  \/ EnterWriteError
  \/ RunBegin
  \/ Submit
  \/ WaitDone
  \/ Interrupt
  \/ HandleInterrupt
  \/ HandlerDone
  \/ InterruptUncaught
  \/ RunReturn
  \/ ExitRemove
  \/ ExitRmdir
  \/ \E w \in Workers : WorkerTake(w)
  \/ \E w \in Workers : WorkerStart(w)
  \/ \E w \in Workers : GpuQueryFail(w)
  \/ \E w \in Workers : Launch(w)
  \/ \E w \in Workers : ProcExit(w)

\* Experiments that generate at most MaxFiles config files.
Bounded(E) == { e \in E : e.num_repeat * Len(e.ablation_grid) <= MaxFiles }

RelOut == RelPath(<<<<"out">>>>)
RelBase == CHOOSE d \in BaseDocs : ~d.args.checkpoint.abs
FreshDir == [exists |-> FALSE, other |-> FALSE]

\* The lifecycle and the dispatcher: every repeat count, grid size, worker
\* count and state of the temp-config directory; one GPU, one base document,
\* copy() shallow as line 59 notes.
Init ==
  InitWith(Bounded(Experiments(1..MaxRepeat,
                               SeqsOf({[args |-> [b |-> 1]]}, 1, MaxGrid),
                               1..MaxJobs, {<<>>}, {RelOut}, {RelBase})),
           DirStates, {1})
  /\ deep_copy = FALSE

Spec == Init /\ [][Next]_vars

\* Grid expansion: every grid over Overrides, relative and absolute output
\* and checkpoint paths, copy() shallow or deep; one worker, one GPU.
InitConfig ==
  InitWith(Bounded(Experiments(1..MaxRepeat, SeqsOf(Overrides, 1, MaxGrid), {1},
                               {<<>>}, OutputDirs, BaseDocs)),
           {FreshDir}, {1})
  /\ deep_copy \in BOOLEAN

SpecConfig == InitConfig /\ [][Next]_vars

\* Launches: every GPU count, flags string, config_dir and exit code; one
\* repetition, one worker.
ConfigDirs == { DefaultConfigDir, <<"./runs", "--gpu", "/">> }

InitLaunch ==
  InitEnv(Bounded(Experiments({1}, SeqsOf({[args |-> [b |-> 1]]}, 1, MaxGrid),
                              {1}, Flags, {RelOut}, {RelBase})),
          {FreshDir}, 1..MaxGPUs, ConfigDirs, {0, 1})
  /\ deep_copy = FALSE

SpecLaunch == InitLaunch /\ [][Next]_vars

\* The steps the main thread takes by itself in run() and __exit__. An
\* interrupt or a file-system error is the environment's choice.
MainThread ==
  \/ RunBegin
  \/ Submit
  \/ WaitDone
  \/ HandleInterrupt
  \/ HandlerDone
  \/ RunReturn
  \/ ExitRemove
  \/ ExitRmdir

\* The steps of pool thread w inside start_run, up to the return of sp.call.
PoolThread(w) ==
  \/ WorkerTake(w)
  \/ WorkerStart(w)
  \/ Launch(w)
  \/ GpuQueryFail(w)

\* The interpreter schedules every thread that can run, and every trainer
\* process exits.
Fairness ==
  /\ WF_vars(MainThread)
  /\ \A w \in 1..MaxJobs : WF_vars(w \in Workers /\ PoolThread(w))
  /\ \A w \in 1..MaxJobs : WF_vars(w \in Workers /\ ProcExit(w))

SpecFair == Init /\ [][Next]_vars /\ Fairness

\* The same object is used for another with statement after a complete
\* lifecycle whose pool has drained: __enter__ starts again on the object's
\* fields as __exit__ left them. self.files is assigned in __init__ only.
Reenter ==
  /\ pc = "done"
  /\ lifecycle + 1 < MaxLifecycles
  /\ \A w \in Workers : worker[w].phase = "idle"
  /\ \A j \in 1..Len(jobs) : jobs[j].status = "done"
  /\ lifecycle' = lifecycle + 1
  /\ pc' = "enter"
  /\ run' = 0
  /\ idx' = 0
  /\ exits' = 0
  /\ UNCHANGED <<experiment, gpus, config_dir, exitCodes, deep_copy, cfgVars, files,
                 fsVars, exc, poolVars, interrupts>>

NextReuse == Next \/ Reenter

\* Reuse of one object: every repeat count and grid size, one worker, every
\* state of the temp-config directory.
InitReuse ==
  InitWith(Bounded(Experiments(1..MaxRepeat,
                               SeqsOf({[args |-> [b |-> 1]]}, 1, MaxGrid),
                               {1}, {<<>>}, {RelOut}, {RelBase})),
           DirStates, {1})
  /\ deep_copy = FALSE

SpecReuse == InitReuse /\ [][NextReuse]_vars

(* ------------------------------- claims ------------------------------- *)
\* Positions of the main thread between the return of __enter__ and the
\* call of __exit__.
BodyPcs == {"run_start", "submit", "wait", "except", "except_sleep", "finish"}

\* Positions at which the lifecycle has ended.
FinalPcs == {"done", "propagated", "raised"}

NumFiles == NumRepeat * Len(Grid)

Running == { j \in 1..Len(jobs) : jobs[j].proc = "running" }

\* C1: once __enter__ has returned, exactly r*g config files have been
\* written and tracked, and no two of them share a config filename, a
\* configuration name or a checkpoint directory.
C1_GeneratesDistinctConfigs ==
  pc \in BodyPcs =>
    /\ Len(files) = NumFiles
    /\ Cardinality({files[k] : k \in 1..Len(files)}) = NumFiles
    /\ dirFiles = {files[k] : k \in 1..Len(files)}
    /\ Cardinality({disk[f].name : f \in dirFiles}) = NumFiles
    /\ Cardinality({disk[f].args.checkpoint : f \in dirFiles}) = NumFiles
    /\ Cardinality(ckptDirs) = NumFiles

C1_Witness ==
  /\ pc = "run_start"
  /\ NumRepeat = 2
  /\ Len(Grid) = 2
  /\ Len(files) = 4

\* C2: when the lifecycle has finished without any interrupt, no config
\* file is left and the temp-config directory is gone unless it holds
\* content that is not ours.
C2_NormalExitCleansUp ==
  (pc = "done" /\ interrupts = 0) =>
    /\ dirFiles = {}
    /\ ~dirOther => ~dirExists

C2_Witness ==
  /\ pc = "done"
  /\ interrupts = 0
  /\ Len(files) > 1
  /\ \A j \in 1..Len(jobs) : jobs[j].proc = "exited"
  /\ ~dirExists

\* C3: after an interrupt during run() the main thread can always take its
\* next step towards teardown, and when the lifecycle has ended __exit__ has
\* run and no config file is left.
C3_InterruptStillCleansUp ==
  interrupts > 0 =>
    /\ pc \notin FinalPcs =>
         ENABLED (HandleInterrupt \/ HandlerDone \/ RunReturn \/ ExitRemove
                    \/ ExitRmdir)
    /\ pc \in FinalPcs => (exits = 1 /\ dirFiles = {})

\* The interrupt arrived mid-dispatch: the handler ran, some files were never
\* submitted, and the lifecycle has ended.
C3_Witness ==
  /\ pc = "done"
  /\ ~execute
  /\ Len(jobs) > 0
  /\ Len(jobs) < Len(files)
  /\ dirFiles = {}

\* C4: at most n_jobs trainer processes are running at any time.
C4_AtMostKRunning == Cardinality(Running) <= experiment.n_jobs

C4_Witness ==
  /\ Len(files) > experiment.n_jobs
  /\ Cardinality(Running) = experiment.n_jobs
  /\ \E j \in 1..Len(jobs) : jobs[j].status = "pending"

\* C5: __exit__ is not called while the body runs, is called at most once,
\* and has been called exactly once when the lifecycle has ended after the
\* body, however the body ended.
C5_TeardownExactlyOnce ==
  /\ exits <= 1
  /\ pc \in BodyPcs => exits = 0
  /\ pc \in {"done", "propagated"} => exits = 1

C5_Witness ==
  /\ pc = "propagated"
  /\ exc = "KeyboardInterrupt"
  /\ exits = 1

\* C6: if __enter__ raised after having written config files, teardown has
\* run and those files are deleted.
C6_Claim ==
  (pc = "raised" /\ files # <<>>) => (exits = 1 /\ dirFiles = {})

\* C7: while the flag is cleared no trainer process starts, and a running
\* trainer is never terminated (it stops running only by exiting).
C7_Claim ==
  [][ /\ ~execute =>
           \A j \in 1..Len(jobs) :
             jobs'[j].proc = "running" => jobs[j].proc = "running"
      /\ \A j \in 1..Len(jobs) :
           (jobs[j].proc = "running" /\ jobs'[j].proc # "running")
             => jobs'[j].proc = "exited" ]_vars

\* C8: the GPU chosen for a launch has maximal free memory among the GPUs
\* queried, and no GPU of lower index has as much.
C8_ArgMaxFirst ==
  \A w \in Workers :
    worker[w].phase = "call" =>
      LET m == worker[w].gpu_memory
          g == worker[w].gpu
      IN /\ g \in DOMAIN m
         /\ \A i \in DOMAIN m : m[i] <= m[g]
         /\ \A i \in DOMAIN m : i < g => m[i] < m[g]

\* A launch where two GPUs tie for the maximum.
C8_Witness ==
  \E w \in Workers :
    /\ worker[w].phase = "call"
    /\ Len(worker[w].cmd) > 0
    /\ \E i \in DOMAIN worker[w].gpu_memory :
         /\ i > worker[w].gpu
         /\ worker[w].gpu_memory[i] = worker[w].gpu_memory[worker[w].gpu]

\* The deep merge of override o onto document d as a pure function.
DeepMerged(d, o) ==
  [name |-> IF "name" \in DOMAIN o THEN o.name ELSE d.name,
   args |-> IF "args" \in DOMAIN o THEN Merge(d.args, o.args) ELSE d.args]

\* C9: after grid expansion there is one resolved configuration per grid
\* point, each the deep merge of its own override onto the base document,
\* the base configuration still equals the base document, and no two of
\* these objects share their nested args object.
C9_Claim ==
  pc = "schedule" =>
    /\ Len(configs) = Len(Grid)
    /\ \A i \in 1..Len(configs) :
         /\ Serialize(heap, configs[i]) = DeepMerged(experiment.ablation_base, Grid[i])
         /\ configs[i].args # base_config.args
         /\ \A k \in 1..Len(configs) : configs[k].args = configs[i].args => k = i
    /\ Serialize(heap, base_config) = experiment.ablation_base

\* The checkpoint directory the claim expects for the pair (r, i).
ExpectedCheckpoint(r, i) ==
  CheckpointPath(experiment.output_directory,
                 DeepMerged(experiment.ablation_base, Grid[i + 1]).args.checkpoint,
                 RunConfigName(r, i))

\* C10: every config file written for a pair (r, i) holds the checkpoint
\* directory <output_directory>/<base checkpoint>/<run name> and the
\* resume-from pair (that directory, the original file name), whatever was
\* written before it; and a file's document does not change once written.
C10_Claim ==
  /\ [](\A r \in 0..(NumRepeat - 1) : \A i \in 0..(Len(Grid) - 1) :
          RunConfigName(r, i) \in dirFiles =>
            LET doc == disk[RunConfigName(r, i)]
            IN /\ doc.args.checkpoint = ExpectedCheckpoint(r, i)
               /\ doc.args.load_folder_file =
                    <<ExpectedCheckpoint(r, i),
                      experiment.ablation_base.args.load_folder_file[2]>>)
  /\ [][\A f \in dirFiles \cap dirFiles' : disk'[f] = disk[f]]_vars


\* C11: with no interrupt, run() is past its wait loop only when every file
\* has been submitted and every job is done with no trainer running, and a
\* config file is deleted only then.
C11_NoDeleteBeforeDone ==
  interrupts = 0 =>
    /\ pc \in {"finish", "remove", "done"} =>
         /\ Len(jobs) = Len(files)
         /\ \A j \in 1..Len(jobs) :
              jobs[j].status = "done" /\ jobs[j].proc # "running"
    /\ \A k \in 1..Len(files) :
         files[k] \notin dirFiles =>
           /\ pc \in {"remove", "done"}
           /\ k <= Len(jobs)
           /\ jobs[k].status = "done"
           /\ jobs[k].proc # "running"

\* Teardown is deleting files after an uninterrupted run of several jobs.
C11_Witness ==
  /\ interrupts = 0
  /\ pc = "remove"
  /\ idx >= 1
  /\ Len(files) >= 2
  /\ \A j \in 1..Len(jobs) : jobs[j].proc = "exited"


\* C12: a trainer is started for a config file only while that file is
\* still on disk.
C12_Claim ==
  [][ \A j \in (DOMAIN jobs) \cap (DOMAIN jobs') :
        (jobs[j].proc # "running" /\ jobs'[j].proc = "running")
          => jobs[j].file \in dirFiles ]_vars


\* The stage of a job: queued, taken by a worker (GPU selection), trainer
\* launched, finished.
Stage(job) ==
  IF job.status = "pending" THEN 0
  ELSE IF job.status = "done" THEN 3
  ELSE IF job.proc = "running" THEN 2 ELSE 1

\* C13: a job never moves back a stage; its trainer is started at most once
\* (started only from "none", and once exited, whatever the exit code, it
\* stays exited); each job belongs to one config file; and with no interrupt
\* and no GPU query failure a finished job has run its trainer.
C13_JobsMoveForward ==
  /\ [](\A j \in 1..Len(jobs) :
          /\ jobs[j].file = files[j]
          /\ \A i \in 1..Len(jobs) : jobs[i].file = jobs[j].file => i = j
          /\ (interrupts = 0 /\ jobs[j].status = "done" /\ ~jobs[j].exception)
               => jobs[j].proc = "exited")
  /\ [][ \A j \in (DOMAIN jobs) \cap (DOMAIN jobs') :
           /\ Stage(jobs'[j]) >= Stage(jobs[j])
           /\ jobs[j].proc = "exited" =>
                (jobs'[j].proc = "exited"
                   /\ jobs'[j].returncode = jobs[j].returncode)
           /\ jobs[j].proc = "running" => jobs'[j].proc \in {"running", "exited"}
           /\ jobs[j].status = "done" => jobs'[j] = jobs[j] ]_vars

\* A trainer exited with a nonzero code and the lifecycle ended without an
\* interrupt.
C13_Witness ==
  /\ pc = "done"
  /\ interrupts = 0
  /\ \E j \in 1..Len(jobs) :
       jobs[j].proc = "exited" /\ jobs[j].returncode = 1


\* C14 as stated: no KeyboardInterrupt ever leaves run().
C14_Claim == exc # "KeyboardInterrupt"

\* C14 amended: an interrupt delivered while run() submits or waits is
\* caught (control goes to the handler, nothing propagates); from the handler
\* on, without a further interrupt, run() goes on to return normally; with
\* one interrupt that was handled the lifecycle ends without an exception;
\* an interrupt delivered at any other position of run() propagates.
C14_CaughtInsideTryOnly ==
  /\ []((interrupts = 1 /\ ~execute) =>
          (exc = "none" /\ (pc \in FinalPcs => pc = "done")))
  /\ [][ /\ (pc \in {"submit", "wait"} /\ interrupts' = interrupts + 1)
              => (pc' = "except" /\ exc' = "none")
         /\ (pc \in {"except", "except_sleep", "finish"}
               /\ interrupts' = interrupts /\ pc' # pc)
              => (exc' = exc /\ pc' \in {"except_sleep", "finish", "remove"})
         /\ (pc \in {"run_start", "except", "except_sleep", "finish"}
               /\ interrupts' = interrupts + 1)
              => (exc' = "KeyboardInterrupt" /\ pc' = "remove") ]_vars

\* One interrupt, handled, and the lifecycle completed normally.
C14_Witness ==
  /\ pc = "done"
  /\ interrupts = 1
  /\ ~execute
  /\ exc = "none"


\* The experiment's flags string names a GPU.
FlagsSpecifyGpu ==
  \E t \in 1..Len(experiment.flags) : experiment.flags[t] = Tok("--gpu")

\* C15: the command of a launch ends with --gpu <selected index> exactly
\* when the flags do not name a GPU, whatever the config file path is.
C15_Claim ==
  \A w \in Workers :
    worker[w].phase = "call" =>
      LET cmd == worker[w].cmd
          n == Len(cmd)
          appended ==
            /\ n = 5 + Len(experiment.flags) + 2
            /\ cmd[n - 1] = Tok("--gpu")
            /\ cmd[n] = Tok(Str(worker[w].gpu))
      IN appended <=> ~FlagsSpecifyGpu


\* C16: content of the temp-config directory that is not ours is never
\* touched and keeps the directory alive; the only files deleted are tracked
\* ones; and after teardown the directory exists exactly when something is
\* left in it.
C16_TeardownFrame ==
  /\ [](dirOther => dirExists)
  /\ []((pc \in {"done", "propagated"} /\ exits = 1) =>
          (dirExists <=> (dirOther \/ dirFiles # {})))
  /\ [][ /\ dirOther' = dirOther
         /\ \A f \in dirFiles \ dirFiles' :
              pc = "remove" /\ \E k \in 1..Len(files) : files[k] = f ]_vars

\* Teardown finished in a directory that holds other content.
C16_Witness ==
  /\ pc = "done"
  /\ exits = 1
  /\ dirOther
  /\ dirExists
  /\ dirFiles = {}
  /\ Len(files) >= 2


\* C17 as stated: a GPU query failure leaves run() as an error, so an
\* uninterrupted lifecycle cannot end normally with a failed job.
C17_Claim ==
  (interrupts = 0 /\ pc = "done") =>
    \A j \in 1..Len(jobs) : ~jobs[j].exception

\* C17 amended: the job whose GPU query failed is done and has no trainer;
\* the failure changes nothing in the main thread; and without an interrupt
\* run() still leaves its wait loop only when all jobs are done, with no
\* exception, every other job having run its trainer.
C17_FailureStaysInFuture ==
  /\ [](\A j \in 1..Len(jobs) :
          jobs[j].exception => (jobs[j].status = "done" /\ jobs[j].proc = "none"))
  /\ []((interrupts = 0 /\ pc \in {"finish", "remove", "done", "propagated"}) =>
          /\ exc = "none"
          /\ Len(jobs) = Len(files)
          /\ \A j \in 1..Len(jobs) :
               /\ jobs[j].status = "done"
               /\ jobs[j].exception \/ jobs[j].proc = "exited")
  /\ [][ (\E j \in (DOMAIN jobs) \cap (DOMAIN jobs') :
            ~jobs[j].exception /\ jobs'[j].exception)
           => (pc' = pc /\ exc' = exc /\ exits' = exits) ]_vars

\* A job failed its GPU query, a later job still ran its trainer, and the
\* lifecycle ended normally.
C17_Witness ==
  /\ pc = "done"
  /\ interrupts = 0
  /\ exc = "none"
  /\ \E j \in 1..Len(jobs) :
       /\ jobs[j].exception
       /\ \E i \in (j + 1)..Len(jobs) : jobs[i].proc = "exited"


\* C18: with fair threads and trainers that exit, once __enter__ has
\* returned run() returns and __exit__ runs to its end, for every number of
\* files and workers and also when a GPU query fails.
C18_RunTerminates ==
  (pc = "run_start") ~> (pc \in {"done", "propagated"} /\ exits = 1)

\* More files than workers, a failed GPU query among them, no interrupt,
\* and teardown has completed.
C18_Witness ==
  /\ pc = "done"
  /\ exits = 1
  /\ interrupts = 0
  /\ Len(files) > experiment.n_jobs
  /\ \E j \in 1..Len(jobs) : jobs[j].exception
  /\ dirFiles = {}


\* C19: the tracked files are in repetition-major, grid-index-minor order;
\* the j-th job submitted is for the j-th tracked file; and a job has been
\* picked up by a worker only when every job submitted before it has been.
C19_SubmissionOrder ==
  /\ pc \in BodyPcs =>
       \A r \in 0..(NumRepeat - 1) : \A i \in 0..(Len(Grid) - 1) :
         files[r * Len(Grid) + i + 1] = RunConfigName(r, i)
  /\ Len(jobs) <= Len(files)
  /\ \A j \in 1..Len(jobs) :
       /\ jobs[j].file = files[j]
       /\ jobs[j].status # "pending" =>
            \A i \in 1..(j - 1) : jobs[i].status # "pending"

\* Two repetitions of a two-entry grid, two workers: the third job is done
\* while the second, picked up before it, still runs its trainer; the fourth
\* waits in the queue.
C19_Witness ==
  /\ NumRepeat = 2
  /\ Len(Grid) = 2
  /\ Len(jobs) = 4
  /\ jobs[1].status = "done"
  /\ jobs[2].proc = "running"
  /\ jobs[3].status = "done"
  /\ jobs[4].status = "pending"


\* The files one __enter__ writes, in the order it writes them.
WrittenByThisEnter ==
  [k \in 1..NumFiles |->
     RunConfigName((k - 1) \div Len(Grid), (k - 1) % Len(Grid))]

\* C20: after every __enter__, the first or a later one on the same object,
\* the tracked file list is exactly the r*g files that enter wrote, and
\* __exit__ then ends without an error of its own.
C20_Claim ==
  /\ pc \in BodyPcs => files = WrittenByThisEnter
  /\ interrupts = 0 => pc # "propagated"

====
